---- MODULE Spec2Model ----
(***************************************************************************)
(* Timeline composition of the Reels-Automation scripts:                   *)
(*   src/reelCreator.py   ReelTextRenderer, InstagramReelCreator           *)
(*   src/reel_creator.py  InstagramReelCreator (pyttsx3 variant)           *)
(*   src/background.py    InstagramBGCreator                               *)
(*                                                                         *)
(* Times are Python floats in the source.  They are modelled as exact      *)
(* rationals <<numerator, denominator>> in lowest terms, so that equal     *)
(* times are equal values; IEEE-754 rounding is not modelled.              *)
(* Texts are sequences of character codes: a code <= 0 is a whitespace     *)
(* character, a code > 0 is a printing character.                          *)
(***************************************************************************)
EXTENDS Integers, Sequences, FiniteSets, TLC

VARIABLES
    \* ---- ReelTextRenderer.create_text_clips / create_text_clips_pil ----
    tfun,          \* which of the two functions is being called
    text,          \* argument text
    duration,      \* argument duration
    animation,     \* argument animation
    raise_at,      \* index of the chunk whose rendering raises (0: none)
    raise_in,      \* "render" | "animate": where that chunk raises
    tpc,           \* "idle" | "called" | "returned" | "raised"
    chunks,        \* the local list chunks
    text_clips,    \* the returned list of clips
    \* ---- InstagramReelCreator.create_single_reel / create_reel ----
    entry,           \* which of the two functions is being called
    content_item,    \* argument: [title, content]
    max_duration,    \* argument of create_single_reel
    voice_enabled,   \* argument of create_reel
    bg_duration,     \* duration of the background video file (None: unreadable)
    rpc,             \* position in the function
    full_text,       \* local full_text
    words,           \* local words
    audio_file,      \* "none" | "raised" | "missing" | "exists" | "silent"
    audio_clip,      \* None, or the duration of the loaded audio clip
    target_duration, \* local target_duration
    bg_video,        \* the prepared background: None or [mode, t_start, t_end, duration]
    final_video,     \* the returned composite: None or [duration, bg, texts, audio]
    \* ---- InstagramBGCreator.create_background_video ----
    video_files,         \* the stock videos: the duration of each file
    req_duration,        \* argument duration (seconds, an int)
    req_num_clips,       \* argument num_clips: <<>> (None) or <<n>>
    transition_duration, \* argument transition_duration
    transition_type,     \* argument transition_type
    bgpc,                \* position in the function
    num_clips,           \* local num_clips
    selected_videos,     \* local selected_videos: indexes into video_files
    segment_duration,    \* local segment_duration
    clip_i,              \* how many of selected_videos the loop has handled
    clips,               \* local clips
    final_clips,         \* local final_clips, then as placed by concatenate
    bg_final,            \* local final_video: None or [duration, total, fadeout]
    skipped,             \* the selected videos reported as "Skipping problematic clip"
    \* ---- InstagramBGCreator.process_clip called on its own ----
    cpc,                 \* "idle" | "called" | "returned"
    clip_args,           \* [native, segment_duration, start_time, frac, loads]
    clip_result,         \* the returned clip, or None
    \* ---- create_batch_reels / batch_create_reels ----
    bfun,                \* which of the two functions is being called
    content_data,        \* the loaded content items
    background_video,    \* duration of the background video file (None: unreadable)
    arg_num_reels,       \* argument num_reels as passed
    num_reels,           \* the name num_reels: the argument, then min(num_reels, len(content_data))
    selected_content,    \* local selected_content: indexes into content_data
    batch_i,             \* how many of selected_content the loop has handled
    attempts,            \* per handled item what the console reports: [item, composed, exported]
    created_reels,       \* local created_reels
    bpc,                 \* position in the function
    \* ---- a second call of create_background_video with the same arguments ----
    first_run,           \* what the first call selected and cut, or None
    rng,                 \* the generator of module random: None when nobody
                         \* seeded it, else <<seed, number of draws made>>
    \* ---- two compositions running at the same time ----
    workers,             \* per worker [kind, cwd, instance, id, second]
    wpc,                 \* per worker its position
    files,               \* the file system: path -> the worker that wrote it last (0: absent)
    wread,               \* per worker the writer of the temporary file it read (0: none yet)
    \* ---- InstagramBGCreator.crop_to_vertical called on its own ----
    crop_pc,             \* "idle" | "called" | "returned"
    crop_clip,           \* the source clip: [w, h]
    crop_out,            \* the crop window and the size of the result
    \* ---- InstagramReelPipeline.run_pipeline (main.py) ----
    ppc,                 \* position in run_pipeline
    pconfig,             \* self.config: [skip_background, skip_scraping, num_reels]
    results,             \* the dict results
    reel_creator,        \* self.reel_creator: None or "created"
    pcalls               \* the calls run_pipeline has made, in order

textvars == <<tfun, text, duration, animation, raise_at, raise_in, tpc,
              chunks, text_clips>>

reelvars == <<entry, content_item, max_duration, voice_enabled, bg_duration,
              rpc, full_text, words, audio_file, audio_clip, target_duration,
              bg_video, final_video>>

bgvars == <<video_files, req_duration, req_num_clips, transition_duration,
            transition_type, bgpc, num_clips, selected_videos,
            segment_duration, clip_i, clips, final_clips, bg_final, skipped>>

clipvars == <<cpc, clip_args, clip_result>>

batchvars == <<bfun, content_data, background_video, arg_num_reels, num_reels,
               selected_content, batch_i, attempts, created_reels, bpc>>

runvars == <<first_run, rng>>

workvars == <<workers, wpc, files, wread>>

cropvars == <<crop_pc, crop_clip, crop_out>>

pipevars == <<ppc, pconfig, results, reel_creator, pcalls>>

extvars == <<batchvars, runvars, workvars, cropvars, pipevars>>

vars == <<textvars, reelvars, bgvars, clipvars, extvars>>

-----------------------------------------------------------------------------
(* Bounds of the model *)

MaxWords == 42

MaxRaiseAt == 2

-----------------------------------------------------------------------------
(* Exact arithmetic standing in for Python float arithmetic *)

Abs(x) == IF x < 0 THEN -x ELSE x

RECURSIVE GCD(_, _)
GCD(a, b) == IF b = 0 THEN a ELSE GCD(b, a % b)

\* the rational n/d (d # 0) in lowest terms with a positive denominator
Rat(n, d) ==
    LET s == IF d < 0 THEN -1 ELSE 1
        g == GCD(Abs(n), Abs(d))
    IN  <<(s * n) \div g, (s * d) \div g>>

RInt(n) == <<n, 1>>

RAdd(a, b) == Rat(a[1] * b[2] + b[1] * a[2], a[2] * b[2])

RSub(a, b) == Rat(a[1] * b[2] - b[1] * a[2], a[2] * b[2])

RMul(a, b) == Rat(a[1] * b[1], a[2] * b[2])

\* a / b, with b # 0
RDiv(a, b) == Rat(a[1] * b[2], a[2] * b[1])

RLt(a, b) == a[1] * b[2] < b[1] * a[2]

RLe(a, b) == a[1] * b[2] <= b[1] * a[2]

RMin(a, b) == IF RLe(a, b) THEN a ELSE b

RMax(a, b) == IF RLe(a, b) THEN b ELSE a

Zero == RInt(0)

-----------------------------------------------------------------------------
(* Python string operations *)

IsSpace(c) == c <= 0

\* str.split(): the maximal runs of non-whitespace characters, in order.
\* The words of s[lo..hi] are those of its two halves, the word that runs
\* across the middle put together again.
RECURSIVE SplitRange(_, _, _)
SplitRange(s, lo, hi) ==
    IF lo > hi THEN <<>>
    ELSE IF lo = hi THEN (IF IsSpace(s[lo]) THEN <<>> ELSE << <<s[lo]>> >>)
    ELSE LET mid == (lo + hi) \div 2
             L == SplitRange(s, lo, mid)
             R == SplitRange(s, mid + 1, hi)
         IN  IF ~IsSpace(s[mid]) /\ ~IsSpace(s[mid + 1])
             THEN SubSeq(L, 1, Len(L) - 1) \o <<L[Len(L)] \o R[1]>> \o Tail(R)
             ELSE L \o R

Split(s) == SplitRange(s, 1, Len(s))

\* ' '.join(ws[lo..hi])
RECURSIVE JoinRange(_, _, _)
JoinRange(ws, lo, hi) ==
    IF lo > hi THEN <<>>
    ELSE IF lo = hi THEN ws[lo]
    ELSE LET mid == (lo + hi) \div 2
         IN  JoinRange(ws, lo, mid) \o <<0>> \o JoinRange(ws, mid + 1, hi)

Join(ws) == JoinRange(ws, 1, Len(ws))

\* words[i:j] with 0-based i, exclusive j, clamped to the list as Python does
Slice(ws, i, j) ==
    LET hi == IF j > Len(ws) THEN Len(ws) ELSE j
    IN  IF i >= hi THEN <<>> ELSE SubSeq(ws, i + 1, hi)

\* the list range(0, n, step)
Range(n, step) == [k \in 1..((n + step - 1) \div step) |-> (k - 1) * step]

\* s.strip()
RECURSIVE StripLeft(_)
StripLeft(s) ==
    IF s = <<>> THEN <<>>
    ELSE IF IsSpace(s[1]) THEN StripLeft(Tail(s)) ELSE s

RECURSIVE StripRight(_)
StripRight(s) ==
    IF s = <<>> THEN <<>>
    ELSE IF IsSpace(s[Len(s)]) THEN StripRight(SubSeq(s, 1, Len(s) - 1)) ELSE s

Strip(s) == StripRight(StripLeft(s))

\* s.replace('\n', ' ')
ReplaceNewlines(s) == [i \in 1..Len(s) |-> IF s[i] = -1 THEN 0 ELSE s[i]]

\* the number of spaces right before position i
RECURSIVE SpacesBefore(_, _)
SpacesBefore(s, i) ==
    IF i > 1 /\ s[i - 1] = 0 THEN 1 + SpacesBefore(s, i - 1) ELSE 0

\* s.replace('  ', ' '): the pairs of spaces, taken left to right without
\* overlap, become one space each: in a run of spaces every second one goes
RECURSIVE ReplaceDoubleSpacesRange(_, _, _)
ReplaceDoubleSpacesRange(s, lo, hi) ==
    IF lo > hi THEN <<>>
    ELSE IF lo = hi
         THEN (IF s[lo] = 0 /\ SpacesBefore(s, lo) % 2 = 1 THEN <<>>
               ELSE <<s[lo]>>)
    ELSE LET mid == (lo + hi) \div 2
         IN  ReplaceDoubleSpacesRange(s, lo, mid)
             \o ReplaceDoubleSpacesRange(s, mid + 1, hi)

ReplaceDoubleSpaces(s) == ReplaceDoubleSpacesRange(s, 1, Len(s))

\* the character '.'
Dot == 999

None == <<>>

\* no clip (Python None where a clip is expected)
NoClip == [mode |-> "none"]

-----------------------------------------------------------------------------
(* Text overlays: ReelTextRenderer.create_text_clips (reelCreator.py) and  *)
(* InstagramReelCreator.create_text_clips_pil (reel_creator.py)            *)

chunk_size == 8

chunk_size_pil == 8

Half == Rat(1, 2)

ThreeTenths == Rat(3, 10)

\* a variant of MakeChunks whose slices run one word into the next chunk
MakeChunksOverlapping(ws, size) ==
    [c \in 1..Len(Range(Len(ws), size)) |->
        Join(Slice(ws, Range(Len(ws), size)[c],
                   Range(Len(ws), size)[c] + size + 1))]

\* a variant of MakeChunks that loses the word at every chunk boundary
MakeChunksDropping(ws, size) ==
    [c \in 1..Len(Range(Len(ws), size)) |->
        Join(Slice(ws, Range(Len(ws), size)[c],
                   Range(Len(ws), size)[c] + size - 1))]

\* a variant of MakeChunks that gives one empty chunk for no words
MakeChunksNeverEmpty(ws, size) ==
    IF ws = <<>> THEN << <<>> >>
    ELSE [c \in 1..((Len(ws) + size - 1) \div size) |->
            Join(Slice(ws, (c - 1) * size, c * size))]

\* [' '.join(words[i:i + chunk_size]) for i in range(0, len(words), chunk_size)]
MakeChunks(ws, size) ==
    [c \in 1..Len(Range(Len(ws), size)) |->
        Join(Slice(ws, Range(Len(ws), size)[c],
                   Range(Len(ws), size)[c] + size))]

\* a variant of chunk_duration that divides by one more than the count
chunk_duration_off_by_one(dur, n) == RDiv(dur, RInt(n + 1))

\* chunk_duration = duration / len(chunks)
chunk_duration(dur, n) == RDiv(dur, RInt(n))

\* start_time = i * chunk_duration   (i is the 0-based index)
start_time(i, cd) == RMul(RInt(i), cd)

\* a clip with set_start(start) and the given duration: moviepy sets
\* end = start + duration
Clip(chunk, start, dur, fx, kind) ==
    [chunk |-> chunk, start |-> start, duration |-> dur,
     end |-> RAdd(start, dur), fx |-> fx, kind |-> kind]

Fx(name, d) == [fx |-> name, d |-> d]

\* a variant of AnimationFx whose fade branches exclude one another: the
\* first clip gets its fade-in and nothing else
AnimationFxElif(anim, index, total) ==
    IF anim = "fade"
    THEN (IF index = 0 THEN <<Fx("fadein", Half)>>
          ELSE IF index = total - 1 THEN <<Fx("fadeout", Half)>>
          ELSE <<Fx("fadeout", ThreeTenths)>>)
    ELSE IF anim = "slide" THEN <<Fx("slide", Half)>>
    ELSE IF anim = "zoom" THEN <<Fx("zoom", Zero)>>
    ELSE <<>>

\* the effects the animation puts on clip `index` of `total`
AnimationFx(anim, index, total) ==
    IF anim = "fade"
    THEN (IF index = 0 THEN <<Fx("fadein", Half)>> ELSE <<>>)
         \o (IF index = total - 1 THEN <<Fx("fadeout", Half)>>
                                  ELSE <<Fx("fadeout", ThreeTenths)>>)
    ELSE IF anim = "slide" THEN <<Fx("slide", Half)>>
    ELSE IF anim = "zoom" THEN <<Fx("zoom", Zero)>>
    ELSE <<>>

\* ReelTextRenderer._apply_animation: an exception inside is caught and
\* the clip comes back without animation
_apply_animation(anim, index, total, raises) ==
    IF raises THEN <<>> ELSE AnimationFx(anim, index, total)

\* a variant of TextClipsOf that leaves out the chunk whose rendering raised
TextClipsDroppingFailed(cs, dur, anim, rat, rin) ==
    LET cd  == chunk_duration(dur, Len(cs))
        all == [c \in 1..Len(cs) |->
                  Clip(cs[c], start_time(c - 1, cd), cd,
                       _apply_animation(anim, c - 1, Len(cs),
                                        rat = c /\ rin = "animate"),
                       "image")]
    IN  IF rat \in 1..Len(cs) /\ rin = "render"
        THEN SubSeq(all, 1, rat - 1) \o SubSeq(all, rat + 1, Len(cs))
        ELSE all

\* ReelTextRenderer.create_text_clips: the list of clips for `cs`
TextClipsOf(cs, dur, anim, rat, rin) ==
    [c \in 1..Len(cs) |->
        LET cd == chunk_duration(dur, Len(cs))
            st == start_time(c - 1, cd)
        IN  IF rat = c /\ rin = "render"
            THEN Clip(<<>>, st, cd, <<>>, "fallback")
            ELSE Clip(cs[c], st, cd,
                      _apply_animation(anim, c - 1, Len(cs),
                                       rat = c /\ rin = "animate"),
                      "image")]

\* InstagramReelCreator.create_text_clips_pil: nothing is caught there
TextClipsPilOf(cs, dur, anim) ==
    [c \in 1..Len(cs) |->
        LET cd == chunk_duration(dur, Len(cs))
            st == start_time(c - 1, cd)
        IN  Clip(cs[c], st, cd, AnimationFx(anim, c - 1, Len(cs)), "image")]

create_text_clips ==
    /\ tpc = "called"
    /\ tfun = "create_text_clips"
    /\ chunks' = MakeChunks(Split(text), chunk_size)
    /\ text_clips' = IF chunks' = <<>> THEN <<>>
                     ELSE TextClipsOf(chunks', duration, animation,
                                      raise_at, raise_in)
    /\ tpc' = "returned"
    /\ UNCHANGED <<tfun, text, duration, animation, raise_at, raise_in>>
    /\ UNCHANGED <<reelvars, bgvars, clipvars, extvars>>

create_text_clips_pil ==
    /\ tpc = "called"
    /\ tfun = "create_text_clips_pil"
    /\ chunks' = MakeChunks(Split(text), chunk_size_pil)
    /\ IF raise_at \in 1..Len(chunks')
       THEN /\ text_clips' = <<>>
            /\ tpc' = "raised"
       ELSE /\ text_clips' = IF chunks' = <<>> THEN <<>>
                             ELSE TextClipsPilOf(chunks', duration, animation)
            /\ tpc' = "returned"
    /\ UNCHANGED <<tfun, text, duration, animation, raise_at, raise_in>>
    /\ UNCHANGED <<reelvars, bgvars, clipvars, extvars>>

\* no reel is being created
ReelIdle ==
    /\ entry = "none"
    /\ content_item = [title |-> <<>>, content |-> <<>>]
    /\ max_duration = None
    /\ voice_enabled = FALSE
    /\ bg_duration = None
    /\ rpc = "idle"
    /\ full_text = <<>>
    /\ words = <<>>
    /\ audio_file = "none"
    /\ audio_clip = None
    /\ target_duration = None
    /\ bg_video = NoClip
    /\ final_video = NoClip

\* no background is being created
BgIdle ==
    /\ video_files = <<>>
    /\ req_duration = 0
    /\ req_num_clips = <<>>
    /\ transition_duration = Zero
    /\ transition_type = "crossfade"
    /\ bgpc = "idle"
    /\ num_clips = 0
    /\ selected_videos = <<>>
    /\ segment_duration = None
    /\ clip_i = 0
    /\ clips = <<>>
    /\ final_clips = <<>>
    /\ bg_final = NoClip
    /\ skipped = {}

ClipIdle ==
    /\ cpc = "idle"
    /\ clip_args = [native |-> Zero, segment_duration |-> Zero,
                    start_time |-> None, frac |-> Zero, loads |-> TRUE]
    /\ clip_result = NoClip

\* no batch is being created
BatchIdle ==
    /\ bfun = "none"
    /\ content_data = <<>>
    /\ background_video = None
    /\ arg_num_reels = 0
    /\ num_reels = 0
    /\ selected_content = <<>>
    /\ batch_i = 0
    /\ attempts = <<>>
    /\ created_reels = <<>>
    /\ bpc = "idle"

\* no earlier call to compare with
RunIdle ==
    /\ first_run = NoClip
    /\ rng = None

\* no workers
WorkIdle ==
    /\ workers = <<>>
    /\ wpc = <<>>
    /\ files = <<>>
    /\ wread = <<>>

CropIdle ==
    /\ crop_pc = "idle"
    /\ crop_clip = [w |-> 0, h |-> 0]
    /\ crop_out = NoClip

\* run_pipeline is not running
PipeIdle ==
    /\ ppc = "idle"
    /\ pconfig = [skip_background |-> FALSE, skip_scraping |-> FALSE,
                  num_reels |-> 0]
    /\ results = [success |-> FALSE, background_video |-> "None",
                  content_file |-> "None", created_reels |-> 0,
                  errors |-> <<>>, processing_time |-> "initial"]
    /\ reel_creator = "None"
    /\ pcalls = <<>>

(* The inputs the functions are called with *)

Word(k) == IF k % 3 = 0 THEN <<k, k + 1>> ELSE <<k>>

\* the whitespace between word k and word k + 1 in layout `fmt`
Sep(fmt, k) ==
    IF fmt = 1 THEN <<0>>
    ELSE IF fmt = 2 THEN (IF k % 2 = 0 THEN <<0, 0>> ELSE <<-1>>)
    ELSE <<-2, 0>>

\* words lo..hi with the whitespace between them
RECURSIVE WordsText(_, _, _)
WordsText(fmt, lo, hi) ==
    IF lo > hi THEN <<>>
    ELSE IF lo = hi THEN Word(lo)
    ELSE LET mid == (lo + hi) \div 2
         IN  WordsText(fmt, lo, mid) \o Sep(fmt, mid)
             \o WordsText(fmt, mid + 1, hi)

\* a text of n distinct words; layouts 2 and 3 have leading and trailing
\* whitespace
MakeText(n, fmt) ==
    IF fmt = 1 THEN WordsText(fmt, 1, n)
    ELSE <<0>> \o WordsText(fmt, 1, n) \o <<-1>>

Formats == {1, 2, 3}

Durations == {Zero, Rat(1, 2), RInt(7), RInt(30), Rat(181, 2)}

Animations == {"fade", "slide", "zoom"}

\* what synthesized narration can measure, in seconds
AudioDurations == {Zero, RInt(45), RInt(120)}

\* random.uniform(0, m) returns Fractions * m
Fractions == {Zero, Half, RInt(1)}

\* (animation, raise_at, raise_in) of the calls made by the reel creators
TextCalls == {<<"fade", 0, "render">>, <<"zoom", 1, "render">>,
              <<"slide", 2, "animate">>}

TextInit ==
    /\ tfun \in {"create_text_clips", "create_text_clips_pil"}
    /\ text \in {MakeText(n, f) : n \in 0..MaxWords, f \in Formats}
    /\ duration \in Durations
    /\ animation \in Animations
    /\ raise_at \in 0..MaxRaiseAt
    /\ raise_in \in (IF raise_at = 0 THEN {"render"} ELSE {"render", "animate"})
    /\ tpc = "called"
    /\ chunks = <<>>
    /\ text_clips = <<>>
    /\ ReelIdle
    /\ BgIdle
    /\ ClipIdle
    /\ BatchIdle
    /\ RunIdle
    /\ WorkIdle
    /\ CropIdle
    /\ PipeIdle

TextNext == create_text_clips \/ create_text_clips_pil

SpecText == TextInit /\ [][TextNext]_vars

-----------------------------------------------------------------------------
(* moviepy clip operations used by the reel creators *)

\* clip.subclip(t_start, t_end) of a clip of duration d: a negative t_start
\* counts from the end, a t_start beyond the end raises
subclip(d, t_start, t_end) ==
    LET ts == IF RLt(t_start, Zero) THEN RAdd(d, t_start) ELSE t_start
        te == IF RLt(t_end, Zero) THEN RAdd(d, t_end) ELSE t_end
    IN  IF RLt(d, ts) THEN [mode |-> "error"]
        ELSE [mode |-> "subclip", t_start |-> ts, t_end |-> te,
              duration |-> RSub(te, ts)]

\* clip.loop(duration=t): the duration is set only when t is truthy
loop(d, t) ==
    [mode |-> "loop", t_start |-> Zero, t_end |-> d,
     duration |-> IF t = Zero THEN d ELSE t]

-----------------------------------------------------------------------------
(* InstagramReelCreator.create_single_reel (reelCreator.py)                *)

\* full_text = f"{title}. {content_text}".strip()
FullTextOf(item) == Strip(item.title \o <<Dot, 0>> \o item.content)

\* if len(words) > limit: full_text = ' '.join(words[:limit]) + '...'
LimitText(ft, ws, limit) ==
    IF Len(ws) > limit THEN Join(SubSeq(ws, 1, limit)) \o <<Dot, Dot, Dot>>
    ELSE ft

\* len(words) / 2.5
EstimatedDuration(ws) == RDiv(RInt(Len(ws)), Rat(5, 2))

\* a variant of ResolveEstimated that forgets the cap
ResolveEstimatedUncapped(ws, cap) == EstimatedDuration(ws)

\* target_duration = min(len(words) / 2.5, max_duration)
ResolveEstimated(ws, cap) == RMin(EstimatedDuration(ws), cap)

\* target_duration = min(audio_clip.duration, max_duration)
ResolveMeasured(ad, cap) == RMin(ad, cap)

\* the background cut or looped to target_duration; frac * max is the
\* value random.uniform(0, max) returns
PrepareBackground(bgd, target, frac) ==
    IF RLt(target, bgd)
    THEN LET st == RMul(frac, RMax(Zero, RSub(bgd, target)))
         IN  subclip(bgd, st, RAdd(st, target))
    ELSE loop(bgd, target)

\* the semi-transparent ColorClip put behind each text clip
SubtitleBackgrounds(tcs) ==
    [i \in 1..Len(tcs) |->
        [start |-> tcs[i].start, duration |-> tcs[i].duration,
         end |-> RAdd(tcs[i].start, tcs[i].duration)]]

\* CompositeVideoClip(...).set_audio(audio).set_duration(target)
Composite(bg, tcs, backs, audio, target) ==
    [mode |-> "composite", duration |-> target, bg |-> bg, texts |-> tcs,
     subtitle_bgs |-> backs, audio |-> audio]

\* the except clause: the function returns None
ReelFails ==
    /\ rpc' = "failed"
    /\ final_video' = NoClip

SR_ExtractText ==
    /\ entry = "create_single_reel"
    /\ rpc = "called"
    /\ LET ft == FullTextOf(content_item)
       IN  IF bg_duration = None \/ ft = <<>> \/ ft = <<Dot>>
           THEN /\ ReelFails
                /\ UNCHANGED <<full_text, words>>
           ELSE /\ words' = Split(ft)
                /\ full_text' = LimitText(ft, words', 200)
                /\ rpc' = "text"
                /\ UNCHANGED final_video
    /\ UNCHANGED <<entry, content_item, max_duration, voice_enabled,
                   bg_duration, audio_file, audio_clip, target_duration,
                   bg_video>>
    /\ UNCHANGED <<textvars, bgvars, clipvars, extvars>>

\* generate_and_save_audio raises (audio_file = None), or returns with the
\* file written or not
SR_GenerateVoice ==
    /\ entry = "create_single_reel"
    /\ rpc = "text"
    /\ audio_file' \in {"raised", "missing", "exists"}
    /\ rpc' = "voice"
    /\ UNCHANGED <<entry, content_item, max_duration, voice_enabled,
                   bg_duration, full_text, words, audio_clip,
                   target_duration, bg_video, final_video>>
    /\ UNCHANGED <<textvars, bgvars, clipvars, extvars>>

SR_ResolveDuration ==
    /\ entry = "create_single_reel"
    /\ rpc = "voice"
    /\ IF audio_file = "exists"
       THEN \E ad \in AudioDurations \cup {None} :
              /\ audio_clip' = ad
              /\ target_duration' =
                    IF ad = None THEN ResolveEstimated(words, max_duration)
                    ELSE ResolveMeasured(ad, max_duration)
       ELSE /\ audio_clip' = None
            /\ target_duration' = ResolveEstimated(words, max_duration)
    /\ rpc' = "duration"
    /\ UNCHANGED <<entry, content_item, max_duration, voice_enabled,
                   bg_duration, full_text, words, audio_file, bg_video,
                   final_video>>
    /\ UNCHANGED <<textvars, bgvars, clipvars, extvars>>

SR_PrepareBackground ==
    /\ entry = "create_single_reel"
    /\ rpc = "duration"
    /\ \E frac \in Fractions :
         LET bg == PrepareBackground(bg_duration, target_duration, frac)
         IN  IF bg.mode = "error"
             THEN ReelFails /\ UNCHANGED bg_video
             ELSE /\ bg_video' = bg
                  /\ rpc' = "background"
                  /\ UNCHANGED final_video
    /\ UNCHANGED <<entry, content_item, max_duration, voice_enabled,
                   bg_duration, full_text, words, audio_file, audio_clip,
                   target_duration>>
    /\ UNCHANGED <<textvars, bgvars, clipvars, extvars>>

\* the call self.text_renderer.create_text_clips(full_text, target_duration, ...)
SR_CreateTextOverlays ==
    /\ entry = "create_single_reel"
    /\ rpc = "background"
    /\ tfun' = "create_text_clips"
    /\ text' = full_text
    /\ duration' = target_duration
    /\ \E c \in TextCalls :
         /\ animation' = c[1]
         /\ raise_at' = c[2]
         /\ raise_in' = c[3]
    /\ tpc' = "called"
    /\ chunks' = <<>>
    /\ text_clips' = <<>>
    /\ rpc' = "overlays"
    /\ UNCHANGED <<entry, content_item, max_duration, voice_enabled,
                   bg_duration, full_text, words, audio_file, audio_clip,
                   target_duration, bg_video, final_video>>
    /\ UNCHANGED <<bgvars, clipvars, extvars>>

SR_Compose ==
    /\ entry = "create_single_reel"
    /\ rpc = "overlays"
    /\ tpc = "returned"
    /\ final_video' = Composite(bg_video, text_clips,
                                SubtitleBackgrounds(text_clips),
                                audio_clip, target_duration)
    /\ rpc' = "returned"
    /\ UNCHANGED <<entry, content_item, max_duration, voice_enabled,
                   bg_duration, full_text, words, audio_file, audio_clip,
                   target_duration, bg_video>>
    /\ UNCHANGED <<textvars, bgvars, clipvars, extvars>>

-----------------------------------------------------------------------------
(* InstagramReelCreator.create_reel (reel_creator.py)                      *)

max_words == 150

\* full_text.replace('\n', ' ').replace('  ', ' ')
CleanText(ft) == ReplaceDoubleSpaces(ReplaceNewlines(ft))

\* generate_voice_over's fallback: silent audio of
\* len(text.split()) / (voice_settings['speed'] / 60) seconds, speed = 160
SilentDuration(ft) == RDiv(RInt(Len(Split(ft))), RDiv(RInt(160), RInt(60)))

\* (word_count / 150) * 60
EstimatedDurationReel(ft) ==
    RMul(RDiv(RInt(Len(Split(ft))), RInt(150)), RInt(60))

\* a variant of ResolveReel without the 30 second floor
ResolveReelNoFloor(audio, ft) ==
    IF audio # None THEN audio
    ELSE RMin(EstimatedDurationReel(ft), RInt(90))

\* target_duration: the audio's duration, or else
\* max(30, min((word_count / 150) * 60, 90))
ResolveReel(audio, ft) ==
    IF audio # None THEN audio
    ELSE RMax(RInt(30), RMin(EstimatedDurationReel(ft), RInt(90)))

\* the background cut or looped to target_duration
PrepareBackgroundReel(bgd, target, frac) ==
    IF RLt(target, bgd)
    THEN LET st == RMul(frac, RSub(bgd, target))
         IN  subclip(bgd, st, RAdd(st, target))
    ELSE loop(bgd, target)

CR_ExtractText ==
    /\ entry = "create_reel"
    /\ rpc = "called"
    /\ LET ft == FullTextOf(content_item)
       IN  IF bg_duration = None \/ ft = <<>>
           THEN /\ ReelFails
                /\ UNCHANGED <<full_text, words>>
           ELSE /\ words' = Split(CleanText(ft))
                /\ full_text' = LimitText(CleanText(ft), words', max_words)
                /\ rpc' = "text"
                /\ UNCHANGED final_video
    /\ UNCHANGED <<entry, content_item, max_duration, voice_enabled,
                   bg_duration, audio_file, audio_clip, target_duration,
                   bg_video>>
    /\ UNCHANGED <<textvars, bgvars, clipvars, extvars>>

\* lines 307-316: generate_voice_over writes the narration, or, when the
\* engine raises, a silent track of the estimated length (whose writing can
\* raise too); the file found is loaded with AudioFileClip, which can raise
CR_GenerateVoice ==
    /\ entry = "create_reel"
    /\ rpc = "text"
    /\ IF ~voice_enabled
       THEN /\ audio_file' = "none"
            /\ audio_clip' = None
            /\ rpc' = "voice"
            /\ UNCHANGED final_video
       ELSE \E out \in {"spoken", "silent", "missing", "raised"} :
              IF out = "raised"
              THEN /\ ReelFails
                   /\ audio_file' = "raised"
                   /\ UNCHANGED audio_clip
              ELSE IF out = "missing"
              THEN /\ audio_file' = "missing"
                   /\ audio_clip' = None
                   /\ rpc' = "voice"
                   /\ UNCHANGED final_video
              ELSE /\ audio_file' = IF out = "silent" THEN "silent"
                                   ELSE "exists"
                   /\ audio_clip' \in
                        (IF out = "silent" THEN {SilentDuration(full_text)}
                                           ELSE AudioDurations)
                   /\ rpc' = "voice"
                   /\ UNCHANGED final_video
    /\ UNCHANGED <<entry, content_item, max_duration, voice_enabled,
                   bg_duration, full_text, words, target_duration, bg_video>>
    /\ UNCHANGED <<textvars, bgvars, clipvars, extvars>>

CR_ResolveDuration ==
    /\ entry = "create_reel"
    /\ rpc = "voice"
    /\ target_duration' = ResolveReel(audio_clip, full_text)
    /\ rpc' = "duration"
    /\ UNCHANGED <<entry, content_item, max_duration, voice_enabled,
                   bg_duration, full_text, words, audio_file, audio_clip,
                   bg_video, final_video>>
    /\ UNCHANGED <<textvars, bgvars, clipvars, extvars>>

CR_PrepareBackground ==
    /\ entry = "create_reel"
    /\ rpc = "duration"
    /\ \E frac \in Fractions :
         LET bg == PrepareBackgroundReel(bg_duration, target_duration, frac)
         IN  IF bg.mode = "error"
             THEN ReelFails /\ UNCHANGED bg_video
             ELSE /\ bg_video' = bg
                  /\ rpc' = "background"
                  /\ UNCHANGED final_video
    /\ UNCHANGED <<entry, content_item, max_duration, voice_enabled,
                   bg_duration, full_text, words, audio_file, audio_clip,
                   target_duration>>
    /\ UNCHANGED <<textvars, bgvars, clipvars, extvars>>

\* the call self.create_text_clips_pil(full_text, target_duration, ...)
CR_CreateTextOverlays ==
    /\ entry = "create_reel"
    /\ rpc = "background"
    /\ tfun' = "create_text_clips_pil"
    /\ text' = full_text
    /\ duration' = target_duration
    /\ \E c \in TextCalls :
         /\ animation' = c[1]
         /\ raise_at' = c[2]
         /\ raise_in' = c[3]
    /\ tpc' = "called"
    /\ chunks' = <<>>
    /\ text_clips' = <<>>
    /\ rpc' = "overlays"
    /\ UNCHANGED <<entry, content_item, max_duration, voice_enabled,
                   bg_duration, full_text, words, audio_file, audio_clip,
                   target_duration, bg_video, final_video>>
    /\ UNCHANGED <<bgvars, clipvars, extvars>>

\* lines 345-362; an exception out of create_text_clips_pil lands in the
\* except clause
CR_Compose ==
    /\ entry = "create_reel"
    /\ rpc = "overlays"
    /\ tpc \in {"returned", "raised"}
    /\ IF tpc = "raised"
       THEN ReelFails
       ELSE /\ final_video' = Composite(bg_video, text_clips,
                                        SubtitleBackgrounds(text_clips),
                                        audio_clip, target_duration)
            /\ rpc' = "returned"
    /\ UNCHANGED <<entry, content_item, max_duration, voice_enabled,
                   bg_duration, full_text, words, audio_file, audio_clip,
                   target_duration, bg_video>>
    /\ UNCHANGED <<textvars, bgvars, clipvars, extvars>>

-----------------------------------------------------------------------------
(* The reel creators, called on one content item *)

TextIdle ==
    /\ tfun = "none"
    /\ text = <<>>
    /\ duration = None
    /\ animation = "fade"
    /\ raise_at = 0
    /\ raise_in = "render"
    /\ tpc = "idle"
    /\ chunks = <<>>
    /\ text_clips = <<>>

\* word counts of the content text
ReelWordCounts == {0, 1, 9, 74, 199, 200, 237}

Titles == {<<>>, <<77>>}

ContentItems ==
    {[title |-> t, content |-> MakeText(n, 1)] :
        t \in Titles, n \in ReelWordCounts}
    \cup {[title |-> t, content |-> MakeText(n, 2)] :
        t \in Titles, n \in {0, 9}}

MaxDurations == {Zero, RInt(30), RInt(90)}

BgDurations == {RInt(10), RInt(100)}

ReelInit ==
    /\ TextIdle
    /\ BgIdle
    /\ ClipIdle
    /\ BatchIdle
    /\ RunIdle
    /\ WorkIdle
    /\ CropIdle
    /\ PipeIdle
    /\ entry \in {"create_single_reel", "create_reel"}
    /\ content_item \in ContentItems
    /\ max_duration \in
         (IF entry = "create_single_reel" THEN MaxDurations ELSE {None})
    /\ voice_enabled \in
         (IF entry = "create_reel" THEN BOOLEAN ELSE {TRUE})
    /\ bg_duration \in BgDurations \cup {None}
    /\ rpc = "called"
    /\ full_text = <<>>
    /\ words = <<>>
    /\ audio_file = "none"
    /\ audio_clip = None
    /\ target_duration = None
    /\ bg_video = NoClip
    /\ final_video = NoClip

ReelNext ==
    \/ SR_ExtractText
    \/ SR_GenerateVoice
    \/ SR_ResolveDuration
    \/ SR_PrepareBackground
    \/ SR_CreateTextOverlays
    \/ SR_Compose
    \/ CR_ExtractText
    \/ CR_GenerateVoice
    \/ CR_ResolveDuration
    \/ CR_PrepareBackground
    \/ CR_CreateTextOverlays
    \/ CR_Compose
    \/ create_text_clips
    \/ create_text_clips_pil

SpecReel == ReelInit /\ [][ReelNext]_vars

-----------------------------------------------------------------------------
(* create_batch_reels (reelCreator.py) and batch_create_reels              *)
(* (reel_creator.py)                                                       *)

\* a variant of SampleContent that can draw an item again
SampleContentRepeating(n, k) == [1..k -> 1..n]

\* random.sample(content_data, k): k distinct items in any order
SampleContent(n, k) ==
    {sq \in [1..k -> 1..n] : \A a, b \in 1..k : a # b => sq[a] # sq[b]}

\* what the loop reports about one item
Attempt(item, composed, exported) ==
    [item |-> item, composed |-> composed, exported |-> exported]

\* the entry appended to created_reels
CreatedReel(item, dur) == [item |-> item, duration |-> dur]

\* load the content, cap num_reels, select the items
B_Select ==
    /\ bpc = "called"
    /\ num_reels' = IF Len(content_data) < num_reels THEN Len(content_data)
                    ELSE num_reels
    /\ selected_content' \in SampleContent(Len(content_data), num_reels')
    /\ created_reels' = <<>>
    /\ bpc' = "loop"
    /\ UNCHANGED <<bfun, content_data, background_video, arg_num_reels,
                   batch_i, attempts>>
    /\ UNCHANGED <<textvars, reelvars, bgvars, clipvars, runvars, workvars,
                   cropvars, pipevars>>

\* the next round of the loop calls create_single_reel (create_reel) on the
\* next selected item; main.py passes max_duration=90
B_CallCreate ==
    /\ bpc = "loop"
    /\ batch_i < Len(selected_content)
    /\ batch_i' = batch_i + 1
    /\ entry' = IF bfun = "create_batch_reels" THEN "create_single_reel"
                ELSE "create_reel"
    /\ content_item' = content_data[selected_content[batch_i']]
    /\ max_duration' = IF bfun = "create_batch_reels" THEN RInt(90) ELSE None
    /\ voice_enabled' = TRUE
    /\ bg_duration' = background_video
    /\ rpc' = "called"
    /\ full_text' = <<>>
    /\ words' = <<>>
    /\ audio_file' = "none"
    /\ audio_clip' = None
    /\ target_duration' = None
    /\ bg_video' = NoClip
    /\ final_video' = NoClip
    /\ bpc' = "composing"
    /\ UNCHANGED <<bfun, content_data, background_video, arg_num_reels,
                   num_reels,
                   selected_content, attempts, created_reels>>
    /\ UNCHANGED <<textvars, bgvars, clipvars, runvars, workvars, cropvars, pipevars>>

\* the rest of the round, once the reel creator has returned: a reel that
\* is not None is exported with write_videofile, which can raise;
\* create_batch_reels catches that (lines 473-494), batch_create_reels
\* does not (lines 408-423)
B_Export ==
    /\ bpc = "composing"
    /\ rpc \in {"returned", "failed"}
    /\ LET item == selected_content[batch_i]
       IN  IF rpc = "failed"
           THEN /\ attempts' = Append(attempts, Attempt(item, FALSE, FALSE))
                /\ bpc' = "loop"
                /\ UNCHANGED created_reels
           ELSE \E written \in BOOLEAN :
                  /\ attempts' = Append(attempts, Attempt(item, TRUE, written))
                  /\ created_reels' =
                        IF written
                        THEN Append(created_reels,
                                    CreatedReel(item, final_video.duration))
                        ELSE created_reels
                  /\ bpc' = IF written \/ bfun = "create_batch_reels"
                            THEN "loop" ELSE "raised"
    /\ UNCHANGED <<bfun, content_data, background_video, arg_num_reels,
                   num_reels,
                   selected_content, batch_i>>
    /\ UNCHANGED <<textvars, reelvars, bgvars, clipvars, runvars, workvars,
                   cropvars, pipevars>>

\* return created_reels
B_Return ==
    /\ bpc = "loop"
    /\ batch_i = Len(selected_content)
    /\ bpc' = "returned"
    /\ UNCHANGED <<bfun, content_data, background_video, arg_num_reels,
                   num_reels,
                   selected_content, batch_i, attempts, created_reels>>
    /\ UNCHANGED <<textvars, reelvars, bgvars, clipvars, runvars, workvars,
                   cropvars, pipevars>>

\* the content files: a list of items
ContentFiles ==
    {<<[title |-> <<77>>, content |-> MakeText(2, 1)]>>,
     <<[title |-> <<77>>, content |-> MakeText(2, 1)],
       [title |-> <<>>, content |-> MakeText(9, 1)]>>,
     <<[title |-> <<>>, content |-> <<>>],
       [title |-> <<77>>, content |-> MakeText(9, 2)]>>}

NumReels == {0, 1, 2, 5}

BatchInit ==
    /\ TextIdle
    /\ ReelIdle
    /\ BgIdle
    /\ ClipIdle
    /\ RunIdle
    /\ WorkIdle
    /\ CropIdle
    /\ PipeIdle
    /\ bfun \in {"create_batch_reels", "batch_create_reels"}
    /\ content_data \in ContentFiles
    /\ background_video \in {RInt(10), None}
    /\ arg_num_reels \in NumReels
    /\ num_reels = arg_num_reels
    /\ selected_content = <<>>
    /\ batch_i = 0
    /\ attempts = <<>>
    /\ created_reels = <<>>
    /\ bpc = "called"

BatchNext ==
    \/ B_Select
    \/ B_CallCreate
    \/ B_Export
    \/ B_Return
    \/ SR_ExtractText
    \/ SR_GenerateVoice
    \/ SR_ResolveDuration
    \/ SR_PrepareBackground
    \/ SR_CreateTextOverlays
    \/ SR_Compose
    \/ CR_ExtractText
    \/ CR_GenerateVoice
    \/ CR_ResolveDuration
    \/ CR_PrepareBackground
    \/ CR_CreateTextOverlays
    \/ CR_Compose
    \/ create_text_clips
    \/ create_text_clips_pil

SpecBatch == BatchInit /\ [][BatchNext]_vars

-----------------------------------------------------------------------------
(* InstagramBGCreator (background.py)                                      *)

avg_clip_duration == 10

\* a clip cut out of a video file of duration `native`
BgClip(native, c) ==
    [mode |-> "clip", native |-> native, t_start |-> c.t_start,
     t_end |-> c.t_end, duration |-> c.duration, fx |-> <<>>,
     start |-> Zero, end |-> c.duration]

\* process_clip(video_path, segment_duration, start_time): `loads` tells
\* whether VideoFileClip opens the file, frac * max_start is the value of
\* random.uniform(0, max_start); any exception makes the result None
process_clip(native, seg, st, frac, loads) ==
    IF ~loads THEN NoClip
    ELSE LET max_start == RMax(Zero, RSub(native, seg))
             start     == IF st = None
                          THEN (IF RLt(Zero, max_start)
                                THEN RMul(frac, max_start) ELSE Zero)
                          ELSE st
             end_time  == RMin(RAdd(start, seg), native)
             c         == subclip(native, start, end_time)
         IN  IF c.mode = "error" THEN NoClip ELSE BgClip(native, c)

\* clip.fadein(d) / clip.fadeout(d) / clip.fx(resize, ...): the effect is
\* added, the clip's window and duration stay
fadein(c, d) == [c EXCEPT !.fx = Append(@, Fx("fadein", d))]

\* a variant of fadeout that also cuts the faded part off the clip
fadeout_cutting(c, d) ==
    [c EXCEPT !.fx = Append(@, Fx("fadeout", d)),
              !.t_end = RSub(@, d), !.duration = RSub(@, d)]

fadeout(c, d) == [c EXCEPT !.fx = Append(@, Fx("fadeout", d))]

zoom_factor == Rat(11, 10)

\* the scale at clip time t of resize(lambda t: 1 + (zoom_factor-1) * t/clip1.duration),
\* z being the effect zoom(c) records: z.d is clip1.duration
ZoomScale(z, t) ==
    RAdd(RInt(1), RDiv(RMul(RSub(zoom_factor, RInt(1)), t), z.d))

zoom(c) == [c EXCEPT !.fx = Append(@, Fx("zoom", c.duration))]

\* create_smooth_transition(clip1, clip2, transition_duration, transition_type)
create_smooth_transition(clip1, clip2, td, tt) ==
    IF tt = "crossfade" THEN <<fadeout(clip1, td), fadein(clip2, td)>>
    ELSE IF tt = "slide"
    THEN <<fadeout(clip1, RMul(td, Half)), fadein(clip2, RMul(td, Half))>>
    ELSE IF tt = "zoom" THEN <<fadeout(zoom(clip1), td), fadein(clip2, td)>>
    ELSE <<clip1, clip2>>

\* the loop "for i, clip in enumerate(clips)" building final_clips
RECURSIVE TransitionLoop(_, _, _, _, _)
TransitionLoop(cl, i, acc, td, tt) ==
    IF i > Len(cl) THEN acc
    ELSE IF i = 1
    THEN TransitionLoop(cl, 2, <<fadein(cl[1], Half)>>, td, tt)
    ELSE LET pr == create_smooth_transition(acc[Len(acc)], cl[i], td, tt)
         IN  TransitionLoop(cl, i + 1,
                            [acc EXCEPT ![Len(acc)] = pr[1]] \o <<pr[2]>>,
                            td, tt)

\* the sum of the durations of cl[1..n]
RECURSIVE SumDurations(_, _)
SumDurations(cl, n) ==
    IF n = 0 THEN Zero ELSE RAdd(SumDurations(cl, n - 1), cl[n].duration)

\* concatenate_videoclips(final_clips, method="compose"): with the default
\* padding of 0 clip i is set to start where the clips before it end
concatenate_videoclips(cl) ==
    [i \in 1..Len(cl) |->
        [cl[i] EXCEPT !.start = SumDurations(cl, i - 1),
                      !.end = SumDurations(cl, i)]]

\* random.sample(video_files, k): k distinct files in any order
Samples(n, k) ==
    {sq \in [1..k -> 1..n] : \A a, b \in 1..k : a # b => sq[a] # sq[b]}

(* Module random.  Nothing in the source seeds the generator, so that a    *)
(* draw can give any value (rng = None).  After random.seed(s) by the      *)
(* caller the draws are a fixed function of s and of the number of draws   *)
(* made before; the function below stands for the Mersenne Twister.        *)

\* the value in [0, 1] behind the next random.uniform
FracOf(g) == <<Zero, Half, RInt(1)>>[((g[1] + g[2]) % 3) + 1]

\* the next random.sample of k out of n
SampleOf(g, n, k) ==
    [a \in 1..k |->
        IF g[1] % 2 = 0 THEN ((g[1] + g[2] + a - 1) % n) + 1
        ELSE n - ((g[1] + g[2] + a - 1) % n)]

\* a variant of UniformDraws that takes no notice of the seed
UniformDrawsUnseeded(g) == Fractions

\* what random.uniform(0, m) / m can be in generator state g
UniformDraws(g) == IF g = None THEN Fractions ELSE {FracOf(g)}

\* what random.sample(video_files, k) can be in generator state g
SampleDraws(g, n, k) == IF g = None THEN Samples(n, k) ELSE {SampleOf(g, n, k)}

\* the generator after one more draw
Advance(g) == IF g = None THEN None ELSE <<g[1], g[2] + 1>>

\* the statements after the arguments: lines 171-187
BG_SelectVideos ==
    /\ bgpc = "called"
    /\ LET wanted == IF req_num_clips = <<>>
                     THEN (IF req_duration \div avg_clip_duration > 3
                           THEN req_duration \div avg_clip_duration ELSE 3)
                     ELSE req_num_clips[1]
           n == IF wanted < Len(video_files) THEN wanted
                ELSE Len(video_files)
       IN  IF video_files = <<>> \/ n <= 0
           THEN /\ bgpc' = "raised"
                /\ UNCHANGED <<num_clips, selected_videos, segment_duration,
                               rng>>
           ELSE /\ num_clips' = n
                /\ selected_videos' \in SampleDraws(rng, Len(video_files), n)
                /\ rng' = Advance(rng)
                /\ segment_duration' =
                      RAdd(RDiv(RInt(req_duration), RInt(n)),
                           transition_duration)
                /\ bgpc' = "processing"
    /\ UNCHANGED <<video_files, req_duration, req_num_clips,
                   transition_duration, transition_type, clip_i, clips,
                   final_clips, bg_final, skipped>>
    /\ UNCHANGED <<textvars, reelvars, clipvars, batchvars, workvars,
                   cropvars, pipevars, first_run>>

\* a variant of AppendIfClip that starts the list over after a file that
\* could not be processed
AppendIfClipRestart(cl, clip) ==
    IF clip = NoClip THEN <<>> ELSE Append(cl, clip)

\* if clip: clips.append(clip), else the file is skipped
AppendIfClip(cl, clip) ==
    IF clip = NoClip THEN cl ELSE Append(cl, clip)

\* one round of the loop of lines 192-204
BG_ProcessClip ==
    /\ bgpc = "processing"
    /\ clip_i < Len(selected_videos)
    /\ clip_i' = clip_i + 1
    /\ \E loads \in BOOLEAN, frac \in UniformDraws(rng) :
         LET native == video_files[selected_videos[clip_i']]
             clip   == process_clip(native, segment_duration, None, frac,
                                    loads)
         IN  /\ clips' = AppendIfClip(clips, clip)
             /\ skipped' = IF clip = NoClip THEN skipped \cup {clip_i'}
                            ELSE skipped
             /\ rng' = IF loads /\ RLt(segment_duration, native)
                       THEN Advance(rng) ELSE rng
    /\ UNCHANGED <<video_files, req_duration, req_num_clips,
                   transition_duration, transition_type, bgpc, num_clips,
                   selected_videos, segment_duration, final_clips, bg_final>>
    /\ UNCHANGED <<textvars, reelvars, clipvars, batchvars, workvars,
                   cropvars, pipevars, first_run>>

\* lines 206-224
BG_CreateTransitions ==
    /\ bgpc = "processing"
    /\ clip_i = Len(selected_videos)
    /\ IF clips = <<>>
       THEN /\ bgpc' = "raised"
            /\ UNCHANGED final_clips
       ELSE /\ final_clips' = TransitionLoop(clips, 1, <<>>,
                                             transition_duration,
                                             transition_type)
            /\ bgpc' = "transitions"
    /\ UNCHANGED <<video_files, req_duration, req_num_clips,
                   transition_duration, transition_type, num_clips,
                   selected_videos, segment_duration, clip_i, clips,
                   bg_final, skipped>>
    /\ UNCHANGED <<textvars, reelvars, clipvars, extvars>>

\* lines 226-269: concatenate, trim to the duration, fade out, export
BG_Concatenate ==
    /\ bgpc = "transitions"
    /\ final_clips' = concatenate_videoclips(final_clips)
    /\ LET total   == SumDurations(final_clips, Len(final_clips))
           trimmed == subclip(total, Zero, RMin(RInt(req_duration), total))
       IN  IF trimmed.mode = "error"
           THEN /\ bgpc' = "raised"
                /\ UNCHANGED bg_final
           ELSE /\ bg_final' = [mode |-> "video", total |-> total,
                                duration |-> trimmed.duration,
                                fx |-> <<Fx("fadeout", Half)>>]
                /\ bgpc' = "returned"
    /\ UNCHANGED <<video_files, req_duration, req_num_clips,
                   transition_duration, transition_type, num_clips,
                   selected_videos, segment_duration, clip_i, clips,
                   skipped>>
    /\ UNCHANGED <<textvars, reelvars, clipvars, extvars>>

\* the stock folders: the durations of their video files
VideoFolders ==
    {<<RInt(20), RInt(15), RInt(30)>>, <<RInt(5), RInt(1)>>, <<RInt(8)>>,
     <<Rat(1, 4)>>, <<>>}

ReqDurations == {6, 40}

ReqNumClips == {<<>>, <<0>>, <<1>>, <<2>>}

TransitionDurations == {Zero, Rat(3, 2)}

TransitionTypes == {"crossfade", "slide", "zoom"}

BgInit ==
    /\ TextIdle
    /\ ReelIdle
    /\ ClipIdle
    /\ BatchIdle
    /\ RunIdle
    /\ WorkIdle
    /\ CropIdle
    /\ PipeIdle
    /\ video_files \in VideoFolders
    /\ req_duration \in ReqDurations
    /\ req_num_clips \in ReqNumClips
    /\ transition_duration \in TransitionDurations
    /\ transition_type \in TransitionTypes
    /\ bgpc = "called"
    /\ num_clips = 0
    /\ selected_videos = <<>>
    /\ segment_duration = None
    /\ clip_i = 0
    /\ clips = <<>>
    /\ final_clips = <<>>
    /\ bg_final = NoClip
    /\ skipped = {}

BgNext ==
    \/ BG_SelectVideos
    \/ BG_ProcessClip
    \/ BG_CreateTransitions
    \/ BG_Concatenate

SpecBG == BgInit /\ [][BgNext]_vars

(* create_background_video called twice with the same arguments by a      *)
(* caller that seeds the generator with the same seed before each call     *)

Seeds == {0, 1, 2, 3}

\* the caller keeps what the first call did, seeds again and calls again
BG_RunAgain ==
    /\ bgpc = "returned"
    /\ first_run = NoClip
    /\ first_run' = [mode |-> "run", selected_videos |-> selected_videos,
                     skipped |-> skipped, final_clips |-> final_clips,
                     bg_final |-> bg_final]
    /\ rng' = <<rng[1], 0>>
    /\ bgpc' = "called"
    /\ num_clips' = 0
    /\ selected_videos' = <<>>
    /\ segment_duration' = None
    /\ clip_i' = 0
    /\ clips' = <<>>
    /\ final_clips' = <<>>
    /\ bg_final' = NoClip
    /\ skipped' = {}
    /\ UNCHANGED <<video_files, req_duration, req_num_clips,
                   transition_duration, transition_type>>
    /\ UNCHANGED <<textvars, reelvars, clipvars, batchvars, workvars,
                   cropvars, pipevars>>

TwoRunsInit ==
    /\ TextIdle
    /\ ReelIdle
    /\ ClipIdle
    /\ BatchIdle
    /\ WorkIdle
    /\ CropIdle
    /\ PipeIdle
    /\ first_run = NoClip
    /\ rng \in {<<sd, 0>> : sd \in Seeds}
    /\ video_files \in VideoFolders
    /\ req_duration \in ReqDurations
    /\ req_num_clips \in ReqNumClips
    /\ transition_duration \in TransitionDurations
    /\ transition_type \in TransitionTypes
    /\ bgpc = "called"
    /\ num_clips = 0
    /\ selected_videos = <<>>
    /\ segment_duration = None
    /\ clip_i = 0
    /\ clips = <<>>
    /\ final_clips = <<>>
    /\ bg_final = NoClip
    /\ skipped = {}

TwoRunsNext ==
    \/ BG_SelectVideos
    \/ BG_ProcessClip
    \/ BG_CreateTransitions
    \/ BG_Concatenate
    \/ BG_RunAgain

SpecTwoRuns == TwoRunsInit /\ [][TwoRunsNext]_vars

(* process_clip called on its own, with or without a start_time *)

call_process_clip ==
    /\ cpc = "called"
    /\ clip_result' = process_clip(clip_args.native,
                                   clip_args.segment_duration,
                                   clip_args.start_time, clip_args.frac,
                                   clip_args.loads)
    /\ cpc' = "returned"
    /\ UNCHANGED clip_args
    /\ UNCHANGED <<textvars, reelvars, bgvars, extvars>>

StartTimes == {None, Zero, RInt(2), RInt(10), RInt(12), RInt(-1)}

ClipInit ==
    /\ TextIdle
    /\ ReelIdle
    /\ BgIdle
    /\ BatchIdle
    /\ RunIdle
    /\ WorkIdle
    /\ CropIdle
    /\ PipeIdle
    /\ cpc = "called"
    /\ clip_args \in [native : {RInt(3), RInt(10)},
                      segment_duration : {RInt(5), Rat(89, 6)},
                      start_time : StartTimes,
                      frac : Fractions,
                      loads : BOOLEAN]
    /\ clip_result = NoClip

ClipNext == call_process_clip

SpecClip == ClipInit /\ [][ClipNext]_vars

-----------------------------------------------------------------------------
(* InstagramBGCreator.crop_to_vertical called on its own                   *)

target_width == 1080

target_height == 1920

Max2(a, b) == IF a > b THEN a ELSE b

Min2(a, b) == IF a < b THEN a ELSE b

\* the window crop_to_vertical cuts out of a w x h clip: w / h > 9/16 is
\* 16 w > 9 h, int(h * 9/16) is (9 h) div 16, int(w * 16/9) is (16 w) div 9
CropWindow(w, h) ==
    IF 16 * w > 9 * h
    THEN LET new_width == (h * 9) \div 16
             x_center  == w \div 2
             x1        == Max2(0, x_center - new_width \div 2)
             x2        == Min2(w, x1 + new_width)
         IN  [axis |-> "x", lo |-> x1, hi |-> x2, of |-> w]
    ELSE LET new_height == (w * 16) \div 9
             y_center   == h \div 2
             y1         == Max2(0, y_center - new_height \div 2)
             y2         == Min2(h, y1 + new_height)
         IN  [axis |-> "y", lo |-> y1, hi |-> y2, of |-> h]

\* crop, then resize((target_width, target_height)); resizing frames that
\* have no pixels raises in the resizer
crop_to_vertical ==
    /\ crop_pc = "called"
    /\ LET win == CropWindow(crop_clip.w, crop_clip.h)
       IN  IF win.hi > win.lo
           THEN /\ crop_out' = [mode |-> "clip", window |-> win,
                                size |-> <<target_width, target_height>>]
                /\ crop_pc' = "returned"
           ELSE /\ crop_out' = [mode |-> "clip", window |-> win,
                                size |-> <<0, 0>>]
                /\ crop_pc' = "raised"
    /\ UNCHANGED crop_clip
    /\ UNCHANGED <<textvars, reelvars, bgvars, clipvars, batchvars, runvars,
                   workvars, pipevars>>

\* widths and heights of the source clips
CropSides == {1, 2, 3, 9, 16, 17, 607, 608, 1080, 1920}

CropInit ==
    /\ TextIdle
    /\ ReelIdle
    /\ BgIdle
    /\ ClipIdle
    /\ BatchIdle
    /\ RunIdle
    /\ WorkIdle
    /\ PipeIdle
    /\ crop_pc = "called"
    /\ crop_clip \in [w : CropSides, h : CropSides]
    /\ crop_out = NoClip

CropNext == crop_to_vertical

SpecCrop == CropInit /\ [][CropNext]_vars

-----------------------------------------------------------------------------
(* InstagramReelPipeline.run_pipeline (main.py)                            *)

\* results['errors'].append(msg)
WithError(res, msg) == [res EXCEPT !.errors = Append(@, msg)]

\* a variant of Proceed that goes on after a failed step
ProceedAlways(path, next) == next

\* "if not path: ...; return results": a step that gave nothing ends the
\* run (the finally clause still runs), otherwise the next step follows
Proceed(path, next) == IF path = "None" THEN "finally" ELSE next

\* a variant of CleanupIfCreated that never cleans up
CleanupNever(rc, calls) == calls

\* if self.reel_creator: self.reel_creator.cleanup()
CleanupIfCreated(rc, calls) ==
    IF rc # "None" THEN Append(calls, "cleanup") ELSE calls

\* lines 215-228: the existing background (which may not exist:
\* FileNotFoundError, caught at line 257), or step_1, which returns a path
\* or, after any exception, None
P_Background ==
    /\ ppc = "start"
    /\ \E path \in {"None", "background.mp4"} :
         IF pconfig.skip_background
         THEN /\ pcalls' = pcalls
              /\ results' = IF path = "None"
                            THEN WithError(results,
                                           "Background video not found")
                            ELSE [results EXCEPT !.background_video = path]
              /\ ppc' = IF path = "None" THEN "finally" ELSE "content"
         ELSE /\ pcalls' = Append(pcalls, "step_1")
              /\ results' = IF path = "None"
                            THEN WithError(results,
                                           "Background video creation failed")
                            ELSE [results EXCEPT !.background_video = path]
              /\ ppc' = Proceed(path, "content")
    /\ UNCHANGED <<pconfig, reel_creator>>
    /\ UNCHANGED <<textvars, reelvars, bgvars, clipvars, batchvars, runvars,
                   workvars, cropvars>>

\* lines 230-243
P_Content ==
    /\ ppc = "content"
    /\ \E path \in {"None", "content.json"} :
         IF pconfig.skip_scraping
         THEN /\ pcalls' = pcalls
              /\ results' = IF path = "None"
                            THEN WithError(results, "Content file not found")
                            ELSE [results EXCEPT !.content_file = path]
              /\ ppc' = IF path = "None" THEN "finally" ELSE "reels"
         ELSE /\ pcalls' = Append(pcalls, "step_2")
              /\ results' = IF path = "None"
                            THEN WithError(results, "Content scraping failed")
                            ELSE [results EXCEPT !.content_file = path]
              /\ ppc' = Proceed(path, "reels")
    /\ UNCHANGED <<pconfig, reel_creator>>
    /\ UNCHANGED <<textvars, reelvars, bgvars, clipvars, batchvars, runvars,
                   workvars, cropvars>>

\* lines 245-252: step_3 makes the reel creator (whose constructor can
\* raise) and returns the files of the reels create_batch_reels made, or
\* [] after any exception
P_Reels ==
    /\ ppc = "reels"
    /\ pcalls' = Append(pcalls, "step_3")
    /\ \E made \in BOOLEAN, n \in 0..pconfig.num_reels :
         /\ reel_creator' = IF made THEN "created" ELSE "None"
         /\ LET reels == IF made THEN n ELSE 0
            IN  IF reels = 0
                THEN /\ results' = WithError(results, "Reel creation failed")
                     /\ ppc' = "finally"
                ELSE /\ results' = [results EXCEPT !.created_reels = reels,
                                                   !.success = TRUE]
                     /\ ppc' = "summary"
    /\ UNCHANGED pconfig
    /\ UNCHANGED <<textvars, reelvars, bgvars, clipvars, batchvars, runvars,
                   workvars, cropvars>>

\* lines 254-259: save_session_summary writes a file and can raise; the
\* except clause appends the exception's text
P_SaveSummary ==
    /\ ppc = "summary"
    /\ pcalls' = Append(pcalls, "save_session_summary")
    /\ \E saved \in BOOLEAN :
         results' = IF saved THEN results
                    ELSE WithError(results, "summary not written")
    /\ ppc' = "finally"
    /\ UNCHANGED <<pconfig, reel_creator>>
    /\ UNCHANGED <<textvars, reelvars, bgvars, clipvars, batchvars, runvars,
                   workvars, cropvars>>

\* lines 261-268: the finally clause, then return results
P_Finally ==
    /\ ppc = "finally"
    /\ results' = [results EXCEPT !.processing_time = "elapsed"]
    /\ pcalls' = CleanupIfCreated(reel_creator, pcalls)
    /\ ppc' = "returned"
    /\ UNCHANGED <<pconfig, reel_creator>>
    /\ UNCHANGED <<textvars, reelvars, bgvars, clipvars, batchvars, runvars,
                   workvars, cropvars>>

\* the configurations main() lets through (an existing file is named
\* whenever a step is skipped, lines 519-525)
PipeConfigs ==
    [skip_background : BOOLEAN, skip_scraping : BOOLEAN,
     num_reels : {0, 1, 2, 5}]

PipeInit ==
    /\ TextIdle
    /\ ReelIdle
    /\ BgIdle
    /\ ClipIdle
    /\ BatchIdle
    /\ RunIdle
    /\ WorkIdle
    /\ CropIdle
    /\ ppc = "start"
    /\ pconfig \in PipeConfigs
    /\ results = [success |-> FALSE, background_video |-> "None",
                  content_file |-> "None", created_reels |-> 0,
                  errors |-> <<>>, processing_time |-> "initial"]
    /\ reel_creator = "None"
    /\ pcalls = <<>>

PipeNext ==
    \/ P_Background
    \/ P_Content
    \/ P_Reels
    \/ P_SaveSummary
    \/ P_Finally

SpecPipe == PipeInit /\ [][PipeNext]_vars

-----------------------------------------------------------------------------
(* Two compositions at the same time: the temporary files they go through  *)

\* the calls that can run side by side: a background export in working
\* directory cwd, a create_single_reel on creator object `instance`, a
\* create_reel in working directory cwd on the item `id` started in clock
\* second `second`
WorkerCalls ==
    {[kind |-> "create_background_video", cwd |-> c, instance |-> 0,
      id |-> "-", second |-> 0] : c \in {1, 2}}
    \cup {[kind |-> "create_single_reel", cwd |-> 1, instance |-> n,
           id |-> "-", second |-> 0] : n \in {1, 2}}
    \cup {[kind |-> "create_reel", cwd |-> c, instance |-> 0, id |-> i,
           second |-> t] : c \in {1, 2}, i \in {"temp", "a"}, t \in {0, 1}}

\* the temporary file a call writes and reads back:
\*   write_videofile(..., temp_audiofile='temp-audio.m4a') in the working
\*   directory; self.temp_folder / "temp_audio.wav", temp_folder being the
\*   mkdtemp directory of the creator object; and
\*   temp_audio/voice_{id}_{int(time.time())}.wav in the working directory
PathOf(c) ==
    IF c.kind = "create_background_video"
    THEN <<"cwd", c.cwd, "temp-audio.m4a", "-", 0>>
    ELSE IF c.kind = "create_single_reel"
    THEN <<"mkdtemp", c.instance, "temp_audio.wav", "-", 0>>
    ELSE <<"cwd", c.cwd, "temp_audio/voice", c.id, c.second>>

Paths == {PathOf(c) : c \in WorkerCalls}

\* worker w writes its temporary file
W_Write(w) ==
    /\ wpc[w] = "start"
    /\ files' = [files EXCEPT ![PathOf(workers[w])] = w]
    /\ wpc' = [wpc EXCEPT ![w] = "written"]
    /\ UNCHANGED <<workers, wread>>
    /\ UNCHANGED <<textvars, reelvars, bgvars, clipvars, batchvars, runvars,
                   cropvars, pipevars>>

\* worker w reads the file back (AudioFileClip, ffmpeg's muxing): it gets
\* what was written there last, or finds no file (-1)
W_Read(w) ==
    /\ wpc[w] = "written"
    /\ wread' = [wread EXCEPT ![w] =
                    IF files[PathOf(workers[w])] = 0 THEN -1
                    ELSE files[PathOf(workers[w])]]
    /\ wpc' = [wpc EXCEPT ![w] = "read"]
    /\ UNCHANGED <<workers, files>>
    /\ UNCHANGED <<textvars, reelvars, bgvars, clipvars, batchvars, runvars,
                   cropvars, pipevars>>

\* worker w finishes; remove_temp=True deletes the export's temporary file,
\* the narration files stay until cleanup
W_Finish(w) ==
    /\ wpc[w] = "read"
    /\ files' = IF workers[w].kind = "create_background_video"
                THEN [files EXCEPT ![PathOf(workers[w])] = 0]
                ELSE files
    /\ wpc' = [wpc EXCEPT ![w] = "done"]
    /\ UNCHANGED <<workers, wread>>
    /\ UNCHANGED <<textvars, reelvars, bgvars, clipvars, batchvars, runvars,
                   cropvars, pipevars>>

WorkersInit ==
    /\ TextIdle
    /\ ReelIdle
    /\ BgIdle
    /\ ClipIdle
    /\ BatchIdle
    /\ RunIdle
    /\ CropIdle
    /\ PipeIdle
    /\ workers \in [1..2 -> WorkerCalls]
    /\ wpc = [w \in 1..2 |-> "start"]
    /\ files = [f \in Paths |-> 0]
    /\ wread = [w \in 1..2 |-> 0]

WorkersNext ==
    \E w \in 1..2 :
        \/ W_Write(w)
        \/ W_Read(w)
        \/ W_Finish(w)

SpecWorkers == WorkersInit /\ [][WorkersNext]_vars

-----------------------------------------------------------------------------
(* Properties of the text overlays *)

\* the words of all chunks, in order
RECURSIVE ChunkWords(_)
ChunkWords(cs) ==
    IF cs = <<>> THEN <<>> ELSE Split(cs[1]) \o ChunkWords(Tail(cs))

\* C1: for a duration > 0 and a text with at least one word, the returned
\* fragments are there, the first starts at 0, the last ends at the
\* duration, and each fragment ends where the next one starts.
C1_FragmentsTileDuration ==
    (tpc = "returned" /\ RLt(Zero, duration) /\ Split(text) # <<>>) =>
        /\ text_clips # <<>>
        /\ text_clips[1].start = Zero
        /\ text_clips[Len(text_clips)].end = duration
        /\ \A i \in 1..(Len(text_clips) - 1) :
              text_clips[i].end = text_clips[i + 1].start

C1_Witness ==
    /\ tpc = "returned"
    /\ Len(text_clips) = 6
    /\ duration = Rat(181, 2)
    /\ text_clips[4].start = Rat(181, 4)
    /\ text_clips[2].kind = "fallback"

\* C2: the words of the chunks, concatenated in order, are the words of
\* the input text: none dropped, none duplicated, none moved.
C2_ChunkingLossless ==
    (tpc \in {"returned", "raised"}) => ChunkWords(chunks) = Split(text)

C2_Witness ==
    /\ tpc = "returned"
    /\ Len(chunks) = 3
    /\ IsSpace(text[1])
    /\ Len(Split(text)) = 17
    /\ ChunkWords(chunks)[9] = <<9, 10>>

-----------------------------------------------------------------------------
(* Properties of the resolved duration *)

\* target_duration has been computed and the function has not failed
DurationResolved == rpc \in {"duration", "background", "overlays", "returned"}

\* the hard cap of each entry point: max_duration, and the 90 of create_reel
HardCap == IF entry = "create_single_reel" THEN max_duration ELSE RInt(90)

\* C4: with a measured narration the total duration is
\* min(measured audio duration, hard cap), in create_single_reel and in
\* create_reel.
C4_MeasuredDurationCapped ==
    (DurationResolved /\ audio_clip # None) =>
        target_duration = RMin(audio_clip, HardCap)

\* the word count each entry point estimates from
WordCount ==
    IF entry = "create_single_reel" THEN Len(words) ELSE Len(Split(full_text))

\* C5 as stated: without a measured narration the total duration is
\* min(word count / 2.5, hard cap) in both entry points.
C5_EstimateCappedEverywhere ==
    (DurationResolved /\ audio_clip = None) =>
        target_duration = RMin(RDiv(RInt(WordCount), Rat(5, 2)), HardCap)

\* C5 amended: without a measured narration create_single_reel resolves to
\* min(len(words) / 2.5, max_duration), words being those of the text before
\* it is cut to 200 words (238 words under a cap of 90 give 90, an estimate
\* under the cap gives itself); create_reel resolves to
\* max(30, min(word count / 2.5, 90)), so that an estimate under 30 s
\* becomes 30 s.
C5_EstimateCappedAndFloored ==
    (DurationResolved /\ audio_clip = None) =>
        /\ (entry = "create_single_reel") =>
              /\ target_duration =
                    RMin(RDiv(RInt(Len(words)), Rat(5, 2)), max_duration)
              /\ (Len(words) = 238 /\ max_duration = RInt(90)) =>
                    target_duration = RInt(90)
              /\ RLe(RDiv(RInt(Len(words)), Rat(5, 2)), max_duration) =>
                    target_duration = RDiv(RInt(Len(words)), Rat(5, 2))
        /\ (entry = "create_reel") =>
              target_duration =
                  RMax(RInt(30),
                       RMin(RDiv(RInt(Len(Split(full_text))), Rat(5, 2)),
                            RInt(90)))

C5_Witness ==
    /\ entry = "create_single_reel"
    /\ rpc = "returned"
    /\ audio_clip = None
    /\ Len(words) = 238
    /\ max_duration = RInt(90)
    /\ target_duration = RInt(90)
    /\ final_video.duration = RInt(90)

\* C6: a reel that is composed has a total duration > 0.
C6_ComposedDurationPositive ==
    (rpc = "returned") => RLt(Zero, final_video.duration)

-----------------------------------------------------------------------------
(* Properties of the background *)

\* the duration of the fade-in a transition put on clip c
FadeInOf(c) ==
    LET ds == {c.fx[k].d : k \in {j \in 1..Len(c.fx) : c.fx[j].fx = "fadein"}}
    IN  CHOOSE d \in ds : TRUE

\* C7: a background that is produced lasts exactly the requested duration.
C7_BackgroundCoversDuration ==
    (bgpc = "returned") => bg_final.duration = RInt(req_duration)

\* C8: on the output timeline clip i starts at the end of clip i-1 minus
\* the duration of the transition between them: neighbours overlap by
\* exactly that duration.
C8_NeighboursOverlapByTransition ==
    (bgpc = "returned") =>
        \A i \in 2..Len(final_clips) :
            final_clips[i].start =
                RSub(final_clips[i - 1].end, FadeInOf(final_clips[i]))

\* C9: the fade a transition applies is never negative and never longer
\* than the shorter of the two clips it joins.
C9_TransitionClamped ==
    (bgpc \in {"transitions", "returned"}) =>
        \A i \in 2..Len(final_clips) :
            /\ RLe(Zero, FadeInOf(final_clips[i]))
            /\ RLe(FadeInOf(final_clips[i]),
                   RMin(final_clips[i - 1].duration, final_clips[i].duration))

\* C10: a clip that process_clip returns has
\* 0 <= inTime < outTime <= nativeDuration.
C10_SegmentInsideAsset ==
    (cpc = "returned" /\ clip_result # NoClip) =>
        /\ RLe(Zero, clip_result.t_start)
        /\ RLt(clip_result.t_start, clip_result.t_end)
        /\ RLe(clip_result.t_end, clip_result.native)

-----------------------------------------------------------------------------
(* Properties of the composed reel *)

\* C11: in a composed reel no layer (background, text fragments and their
\* subtitle backgrounds, narration) starts before 0 or ends after the total
\* duration; an attached narration fits whole inside [0, total duration].
C11_LayersInsideTotalDuration ==
    (rpc = "returned") =>
        LET T == final_video.duration
        IN  /\ RLe(final_video.bg.duration, T)
            /\ \A i \in 1..Len(final_video.texts) :
                  /\ RLe(Zero, final_video.texts[i].start)
                  /\ RLe(final_video.texts[i].end, T)
            /\ \A i \in 1..Len(final_video.subtitle_bgs) :
                  /\ RLe(Zero, final_video.subtitle_bgs[i].start)
                  /\ RLe(final_video.subtitle_bgs[i].end, T)
            /\ (final_video.audio # None) => RLe(final_video.audio, T)

-----------------------------------------------------------------------------
(* Error handling of the background *)

\* C12: a background whose concatenated clips are shorter than the
\* requested duration is not produced: the function never returns (and
\* exports) a video clamped to the shorter length.
C12_ShortBackgroundAborts ==
    (bgpc = "returned") => ~RLt(bg_final.total, RInt(req_duration))

-----------------------------------------------------------------------------
(* Properties of the batch *)

\* the selected items whose reel was composed and exported, in the order
\* of selection
RECURSIVE Succeeded(_)
Succeeded(n) ==
    IF n = 0 THEN <<>>
    ELSE IF attempts[n].composed /\ attempts[n].exported
    THEN Append(Succeeded(n - 1), attempts[n].item)
    ELSE Succeeded(n - 1)

\* C13: a batch always comes to its return, whatever fails while composing
\* or exporting one reel: every selected item has been attempted, in the
\* order of selection, and the returned list holds exactly the items whose
\* composition and export both succeeded, in that order.
C13_BatchSurvivesItemFailures ==
    (bpc \in {"returned", "raised"}) =>
        /\ bpc = "returned"
        /\ [i \in 1..Len(attempts) |-> attempts[i].item] = selected_content
        /\ [i \in 1..Len(created_reels) |-> created_reels[i].item]
              = Succeeded(Len(attempts))

-----------------------------------------------------------------------------
(* Skipping of unreadable assets *)

\* the files among the first n selected ones that were not skipped, in order
RECURSIVE KeptFiles(_)
KeptFiles(n) ==
    IF n = 0 THEN <<>>
    ELSE IF n \in skipped THEN KeptFiles(n - 1)
    ELSE Append(KeptFiles(n - 1), video_files[selected_videos[n]])

\* C14: a selected file that cannot be processed is skipped and the others
\* are kept, in order, and all of them end up in the background; the build
\* raises only when no file at all was processed.
C14_UnreadableAssetsSkipped ==
    /\ [i \in 1..Len(clips) |-> clips[i].native] = KeptFiles(clip_i)
    /\ (bgpc = "raised") => clips = <<>>
    /\ (bgpc \in {"transitions", "returned"}) =>
          /\ clips # <<>>
          /\ [i \in 1..Len(final_clips) |-> final_clips[i].native]
                = KeptFiles(Len(selected_videos))

C14_Witness ==
    /\ bgpc = "returned"
    /\ skipped = {2}
    /\ Len(selected_videos) = 3
    /\ Len(final_clips) = 2

-----------------------------------------------------------------------------
(* Failing narration *)

\* the synthesis of the narration failed, or its audio could not be loaded
NarrationFailed ==
    \/ audio_file \in {"raised", "missing", "silent"}
    \/ /\ entry = "create_single_reel"
       /\ audio_file = "exists"
       /\ audio_clip = None
       /\ rpc \in {"duration", "background", "overlays", "returned"}

\* C15: when the narration fails the reel is still created (unless the
\* text overlays raise): it has no audio track and lasts
\* min(word count / 2.5, hard cap).
C15_FailedNarrationFallsBack ==
    (NarrationFailed /\ tpc # "raised") =>
        /\ rpc # "failed"
        /\ (rpc = "returned") =>
              /\ final_video.audio = None
              /\ final_video.duration =
                    RMin(RDiv(RInt(WordCount), Rat(5, 2)), HardCap)

-----------------------------------------------------------------------------
(* Determinism under a seed *)

-----------------------------------------------------------------------------
(* Isolation of concurrent compositions *)

\* C17: of two compositions running at the same time neither overwrites a
\* temporary file the other has written and not yet read, and neither
\* reads anything but the file it wrote itself.
C17_NoSharedTemporaryFiles ==
    \A w \in DOMAIN workers :
        /\ (wpc[w] = "written") => files[PathOf(workers[w])] = w
        /\ (wpc[w] \in {"read", "done"}) => wread[w] = w

-----------------------------------------------------------------------------
(* The vertical crop *)

\* C18: for a clip of positive width and height crop_to_vertical returns
\* a 1080 x 1920 view; its crop window is non-empty, lies inside the
\* source frame and is cut along the width when w/h > 9/16 and along the
\* height otherwise.
C18_CropWindowInsideFrame ==
    (crop_pc \in {"returned", "raised"}) =>
        /\ crop_pc = "returned"
        /\ crop_out.size = <<1080, 1920>>
        /\ 0 <= crop_out.window.lo
        /\ crop_out.window.lo < crop_out.window.hi
        /\ crop_out.window.axis =
              (IF 16 * crop_clip.w > 9 * crop_clip.h THEN "x" ELSE "y")
        /\ crop_out.window.hi <=
              (IF crop_out.window.axis = "x" THEN crop_clip.w
               ELSE crop_clip.h)

-----------------------------------------------------------------------------
(* Empty text *)

\* C19: a text without words gives no chunks and an empty list of clips,
\* and the function returns without raising (no division by a chunk count
\* of zero); that empty list adds no text layer and no subtitle background
\* to a reel.
C19_EmptyTextNoFragments ==
    (tpc \in {"returned", "raised"} /\ Split(text) = <<>>) =>
        /\ tpc = "returned"
        /\ chunks = <<>>
        /\ text_clips = <<>>
        /\ LET reel == Composite(NoClip, text_clips,
                                 SubtitleBackgrounds(text_clips), None,
                                 duration)
           IN  reel.texts = <<>> /\ reel.subtitle_bgs = <<>>

C19_Witness ==
    /\ tpc = "returned"
    /\ text # <<>>
    /\ Split(text) = <<>>
    /\ raise_at = 1
    /\ text_clips = <<>>

-----------------------------------------------------------------------------
(* The end of the background *)

\* C20: in a background that is produced the last clip is still there
\* after the cut to the total duration (it starts before the end), and the
\* final fade-out lasts min(0.5 s, what is left of the last clip).
C20_TerminalFadeOut ==
    (bgpc = "returned") =>
        LET last == final_clips[Len(final_clips)]
            T    == bg_final.duration
            left == RSub(RMin(last.end, T), last.start)
        IN  /\ RLt(last.start, T)
            /\ bg_final.fx[1].d = RMin(Half, left)

-----------------------------------------------------------------------------
(* Properties of the transitions *)

\* the effects of kind `name` on clip c
FxOf(c, name) == SelectSeq(c.fx, LAMBDA f : f.fx = name)

\* C21: with the zoom transition every outgoing clip is scaled by a factor
\* that does not decrease, is 1.0 where its fade-out begins and 1.1 at its
\* end; the incoming clip (the last one, which nothing follows) is not
\* scaled.
C21_ZoomSpansFadeOut ==
    (bgpc \in {"transitions", "returned"} /\ transition_type = "zoom") =>
        /\ FxOf(final_clips[Len(final_clips)], "zoom") = <<>>
        /\ \A i \in 1..(Len(final_clips) - 1) :
              LET c   == final_clips[i]
                  z   == FxOf(c, "zoom")[1]
                  out == FxOf(c, "fadeout")[1].d
                  t0  == RSub(c.duration, out)
              IN  /\ Len(FxOf(c, "zoom")) = 1
                  /\ ZoomScale(z, t0) = RInt(1)
                  /\ ZoomScale(z, c.duration) = Rat(11, 10)
                  /\ RLe(ZoomScale(z, t0),
                         ZoomScale(z, RAdd(t0, RMul(Half, out))))
                  /\ RLe(ZoomScale(z, RAdd(t0, RMul(Half, out))),
                         ZoomScale(z, c.duration))

\* C22: the transitions leave every clip's trim window and duration as
\* process_clip made them, also on a clip that gets a fade-in from the
\* transition before it and a fade-out from the one after it.
C22_TransitionsKeepTrimWindows ==
    (bgpc \in {"transitions", "returned"}) =>
        /\ Len(final_clips) = Len(clips)
        /\ \A i \in 1..Len(clips) :
              /\ final_clips[i].native = clips[i].native
              /\ final_clips[i].t_start = clips[i].t_start
              /\ final_clips[i].t_end = clips[i].t_end
              /\ final_clips[i].duration = clips[i].duration

C22_Witness ==
    /\ bgpc = "transitions"
    /\ Len(final_clips) = 3
    /\ transition_duration = Rat(3, 2)
    /\ FxOf(final_clips[2], "fadein") # <<>>
    /\ FxOf(final_clips[2], "fadeout") # <<>>

-----------------------------------------------------------------------------
(* Properties of run_pipeline *)

\* C23: a returned result with success = True has no errors, names a
\* background video and a content file and has at least one reel, also
\* when the session summary could not be saved.
C23_SuccessMeansNoErrors ==
    (ppc = "returned" /\ results.success) =>
        /\ results.errors = <<>>
        /\ results.background_video # "None"
        /\ results.content_file # "None"
        /\ results.created_reels > 0

\* the positions of the calls the pipeline can make
CallRank(c) ==
    IF c = "step_1" THEN 1 ELSE IF c = "step_2" THEN 2
    ELSE IF c = "step_3" THEN 3 ELSE IF c = "save_session_summary" THEN 4
    ELSE 5

Called(c) == \E k \in 1..Len(pcalls) : pcalls[k] = c

\* the step a run failed in, and the errors that name it
FailedStep ==
    IF results.background_video = "None" THEN "background"
    ELSE IF results.content_file = "None" THEN "content"
    ELSE IF results.created_reels = 0 THEN "reels"
    ELSE "none"

ErrorsNaming(step) ==
    IF step = "background"
    THEN {"Background video creation failed", "Background video not found"}
    ELSE IF step = "content"
    THEN {"Content scraping failed", "Content file not found"}
    ELSE {"Reel creation failed"}

\* C24: the steps run in the order background, content, reels; content is
\* not scraped after the background failed, reels are not created without
\* a background path and a content path, and a run in which a step failed
\* returns success = False with an error that names the step.
C24_StepsInOrderAndShortCircuit ==
    /\ \A j, k \in 1..Len(pcalls) :
          j < k => CallRank(pcalls[j]) < CallRank(pcalls[k])
    /\ Called("step_2") => results.background_video # "None"
    /\ Called("step_3") =>
          /\ results.background_video # "None"
          /\ results.content_file # "None"
    /\ (ppc = "returned" /\ FailedStep # "none") =>
          /\ ~results.success
          /\ results.errors # <<>>
          /\ results.errors[1] \in ErrorsNaming(FailedStep)

C24_Witness ==
    /\ ppc = "returned"
    /\ pcalls = <<"step_1", "step_2">>
    /\ results.background_video = "background.mp4"
    /\ results.errors = <<"Content scraping failed">>
    /\ ~results.success

\* C25: whenever run_pipeline has returned, processing_time is set, and if
\* the reel creator was made its cleanup has been called.
C25_FinallyAlwaysRuns ==
    (ppc = "returned") =>
        /\ results.processing_time = "elapsed"
        /\ (reel_creator # "None") => Called("cleanup")

C25_Witness ==
    /\ ppc = "returned"
    /\ reel_creator = "created"
    /\ results.errors = <<"Reel creation failed">>
    /\ results.processing_time = "elapsed"
    /\ pcalls[Len(pcalls)] = "cleanup"

-----------------------------------------------------------------------------
(* The selection of a batch *)

\* C26: create_batch_reels always returns; a batch that has returned has
\* attempted exactly min(num_reels, m) items of the m in the content file,
\* all different, each once, and returns at most that many reels, no item
\* twice.
C26_BatchAttemptsDistinctItems ==
    (bpc \in {"returned", "raised"}) =>
        /\ (bfun = "create_batch_reels") => bpc = "returned"
        /\ (bpc = "returned") =>
              /\ Len(attempts) = Min2(arg_num_reels, Len(content_data))
              /\ \A j, k \in 1..Len(attempts) :
                    j # k => attempts[j].item # attempts[k].item
              /\ \A j \in 1..Len(attempts) :
                    attempts[j].item \in 1..Len(content_data)
              /\ Len(created_reels) <= Min2(arg_num_reels, Len(content_data))
              /\ \A j, k \in 1..Len(created_reels) :
                    j # k => created_reels[j].item # created_reels[k].item

C26_Witness ==
    /\ bpc = "returned"
    /\ bfun = "create_batch_reels"
    /\ arg_num_reels = 5
    /\ Len(content_data) = 2
    /\ Len(attempts) = 2
    /\ Len(created_reels) = 1

-----------------------------------------------------------------------------
(* The number of clips of a background video *)

\* C27: once create_background_video has got past the selection of its
\* source files from a folder that holds some, for every requested duration
\* and every num_clips argument the number of clips is at least 1 and at
\* most the number of files, the selected files are pairwise different, and
\* the segment duration is defined.
C27_ClipCountWithinFolder ==
    (bgpc # "called" /\ video_files # <<>>) =>
        /\ num_clips >= 1
        /\ num_clips <= Len(video_files)
        /\ Len(selected_videos) = num_clips
        /\ \A j, k \in 1..Len(selected_videos) :
              j # k => selected_videos[j] # selected_videos[k]
        /\ segment_duration # None

-----------------------------------------------------------------------------
(* The words behind the estimated duration *)

\* C28: in create_single_reel the duration estimated without a measured
\* narration is that of the words of the text that is narrated and handed to
\* the chunker, the text after its cut to 200 words: their number / 2.5,
\* under the cap max_duration.
C28_EstimateCountsNarratedWords ==
    (entry = "create_single_reel" /\ DurationResolved /\ audio_clip = None) =>
        target_duration =
            RMin(RDiv(RInt(Len(Split(full_text))), Rat(5, 2)), max_duration)

-----------------------------------------------------------------------------
(* The text timeline under rendering failures *)

\* C29: create_text_clips returns as many clips as there are chunks, clip i
\* (from 0) starting at i * (duration / chunk count) and lasting
\* duration / chunk count, also when rendering or animating a chunk raised:
\* a chunk whose rendering raised is replaced by a fallback clip with the
\* same start and length.
C29_FailuresLeaveNoGap ==
    (tfun = "create_text_clips" /\ tpc = "returned") =>
        LET n == Len(chunks)
        IN  /\ Len(text_clips) = n
            /\ \A i \in 1..n :
                  /\ text_clips[i].start =
                        RDiv(RMul(RInt(i - 1), duration), RInt(n))
                  /\ text_clips[i].duration = RDiv(duration, RInt(n))
                  /\ (raise_at = i /\ raise_in = "render") =>
                        text_clips[i].kind = "fallback"

C29_Witness ==
    /\ tfun = "create_text_clips"
    /\ tpc = "returned"
    /\ raise_at = 2
    /\ raise_in = "render"
    /\ duration = RInt(30)
    /\ Len(chunks) = 3
    /\ Len(text_clips) = 3
    /\ text_clips[2].kind = "fallback"
    /\ text_clips[2].start = RInt(10)
    /\ text_clips[2].end = RInt(20)

-----------------------------------------------------------------------------
(* The fades of the text fragments *)

\* the durations of the effects called `name` on text clip c, as a sequence
FadesOn(c, name) ==
    LET RECURSIVE Pick(_)
        Pick(k) == IF k = 0 THEN <<>>
                   ELSE IF c.fx[k].fx = name
                        THEN Append(Pick(k - 1), c.fx[k].d)
                        ELSE Pick(k - 1)
    IN  Pick(Len(c.fx))

\* C30: with the fade animation every fragment that was rendered and
\* animated without an error has exactly one fade-out, of 0.5 s on the last
\* fragment and 0.3 s on the others, and a fade-in, of 0.5 s, on the first
\* fragment only; a single fragment has both.
C30_FadeInFirstFadeOutAll ==
    (tpc = "returned" /\ animation = "fade") =>
        LET n == Len(text_clips)
        IN  \A i \in 1..n :
              (raise_at # i) =>
                 /\ FadesOn(text_clips[i], "fadeout") =
                       IF i = n THEN <<Half>> ELSE <<ThreeTenths>>
                 /\ FadesOn(text_clips[i], "fadein") =
                       IF i = 1 THEN <<Half>> ELSE <<>>

C30_Witness ==
    /\ tpc = "returned"
    /\ animation = "fade"
    /\ Len(text_clips) = 1
    /\ raise_at = 0
    /\ text_clips[1].fx = <<Fx("fadein", Half), Fx("fadeout", Half)>>

====
